---- MODULE Spec2Model ----
(***************************************************************************)
(* Basic_Agent of macad_gym/core/controllers/basic_agent.py: the per-tick  *)
(* lane-change decision (_lane_change_action), the trajectory tracker      *)
(* (_pid_run_step), the hazard detection (_vehicle_obstacle_detected,      *)
(* _affected_by_traffic_light) and their arbitration (run_step), driven by *)
(* set_info and the ignore_* setters.                                      *)
(*                                                                         *)
(* Representation.  A waypoint buffer is modelled by its length: entry i   *)
(* of a buffer is the waypoint <<buffer, i>>.  The three rear buffers and  *)
(* distance_to_center_rear are stored by set_info and read by nothing, so  *)
(* they are left out.  Floats are scaled to integers: throttle, brake and  *)
(* steer are in tenths, _min_distance is kept times four.  The variables   *)
(* of the last group hold the latest run_step call: its arguments, what it *)
(* read from the world and, on entry, from self.last_lane,                 *)
(* self.lane_change_mode and self._last_traffic_light (the entry_*         *)
(* variables), its locals, the waypoint and the speed it handed to the PID *)
(* controller (self.target_waypoint, read nowhere else, and target_speed)  *)
(* and its result.                                                         *)
(***************************************************************************)
EXTENDS Integers, Sequences, FiniteSets, TLC

VARIABLES
    \* configuration (__init__, opt_dict, ignore_* setters)
    random_lane_change, _ignore_change_gap, _ignore_traffic_lights, _ignore_vehicle,
    _ignore_stop_signs,
    \* perception (set_info)
    left_wps, center_wps, right_wps,
    distance_to_left_front, distance_to_center_front, distance_to_right_front,
    distance_to_left_rear, distance_to_right_rear,
    enable_left_change, enable_right_change,
    \* controller state
    last_lane, lane_change_mode, autopilot_step, _last_traffic_light,
    \* the latest run_step call
    last_target_lane, last_action, modify_change_steer,
    entry_last_lane, entry_lane_change_mode, entry_last_traffic_light, target_waypoint,
    vehicle_speed, lights_list, lateral, raw_control,
    affected_by_vehicle, affected_by_tlight,
    lane_change, new_action, new_target_lane, next_wp, control, outcome,
    current_lane_arg, max_vehicle_distance, max_tlight_distance, target_speed,
    \* the value the latest get_step call returned
    get_step_result

configVars == <<random_lane_change, _ignore_change_gap, _ignore_traffic_lights, _ignore_vehicle,
                _ignore_stop_signs>>
perceptionVars == <<left_wps, center_wps, right_wps,
                    distance_to_left_front, distance_to_center_front, distance_to_right_front,
                    distance_to_left_rear, distance_to_right_rear,
                    enable_left_change, enable_right_change>>
agentVars == <<last_lane, lane_change_mode, autopilot_step, _last_traffic_light>>
callVars == <<entry_last_lane, entry_lane_change_mode, entry_last_traffic_light, target_waypoint, last_target_lane, last_action, modify_change_steer,
              vehicle_speed, lights_list, lateral, raw_control,
              affected_by_vehicle, affected_by_tlight,
              lane_change, new_action, new_target_lane, next_wp, control, outcome,
              current_lane_arg, max_vehicle_distance, max_tlight_distance, target_speed>>
vars == <<configVars, perceptionVars, agentVars, callVars, get_step_result>>

-----------------------------------------------------------------------------
(* Values *)

\* Action (macad_gym.core.utils.wrapper); value is the signed lane delta
LANE_FOLLOW == "LANE_FOLLOW"
LANE_CHANGE_LEFT == "LANE_CHANGE_LEFT"
LANE_CHANGE_RIGHT == "LANE_CHANGE_RIGHT"
Action == {LANE_FOLLOW, LANE_CHANGE_LEFT, LANE_CHANGE_RIGHT}

ActionValue(a) ==
    CASE a = LANE_FOLLOW -> 0
      [] a = LANE_CHANGE_LEFT -> -1
      [] a = LANE_CHANGE_RIGHT -> 1

\* lane indices tested by _lane_change_action
LEFT == -1
CENTER == -2
RIGHT == -3
KnownLanes == {LEFT, CENTER, RIGHT}

\* None, per type
NoLane == 99
NoLight == 0
NoDistance == -99
NoSpeed == -1
NoStep == -1
NoAction == "None"
NoWaypoint == <<"None", 0>>
NoControl == [throttle |-> -1, brake |-> -1, steer |-> 0, gear |-> 0]

\* defaults set by __init__
lanechanging_fps == 50
_base_min_distance == 3
_base_tlight_threshold == 5
_base_vehicle_threshold == 10
_max_brake == 3

_target_speed == 20

\* bounds of the model
MaxStep == 3
NumLights == 2
MaxLateral == 3

Red == "Red"
Green == "Green"

-----------------------------------------------------------------------------
(* Lane-change decision: _lane_change_action *)

\* init_random_change: the distinct entries of the three choice lists
FollowEntries == IF lanechanging_fps > 0 THEN {LANE_FOLLOW} ELSE {}
left_random_change_Outward == FollowEntries \cup {LANE_CHANGE_LEFT}
left_random_change == FollowEntries \cup {LANE_CHANGE_RIGHT}
center_random_change == FollowEntries \cup {LANE_CHANGE_RIGHT, LANE_CHANGE_LEFT}
right_random_change == FollowEntries \cup {LANE_CHANGE_LEFT}

\* the two gap tests of the gap-based policy
LeftGap ==
    /\ distance_to_left_front - distance_to_center_front > 5
    /\ distance_to_left_rear > 1

RightGap_FrontOnly ==
    distance_to_right_front - distance_to_center_front > 5

RightGap ==
    /\ distance_to_right_front - distance_to_center_front > 5
    /\ distance_to_right_rear > 1

change_choice ==
    (IF LeftGap THEN {LANE_CHANGE_LEFT} ELSE {}) \cup (IF RightGap THEN {LANE_CHANGE_RIGHT} ELSE {})

\* the values the policy can assign to lane_change (random.choice picks any entry)
PolicyChoice_DefaultCenter(current_lane) ==
    IF random_lane_change
    THEN CASE current_lane = LEFT -> left_random_change
           [] current_lane = RIGHT -> right_random_change
           [] OTHER -> center_random_change
    ELSE CASE current_lane = LEFT ->
                IF RightGap THEN {LANE_CHANGE_RIGHT} ELSE {LANE_FOLLOW}
           [] current_lane = RIGHT ->
                IF LeftGap THEN {LANE_CHANGE_LEFT} ELSE {LANE_FOLLOW}
           [] OTHER ->
                IF change_choice = {} THEN {LANE_FOLLOW} ELSE change_choice

PolicyChoice(current_lane) ==
    IF random_lane_change
    THEN CASE current_lane = CENTER -> center_random_change
           [] current_lane = LEFT -> left_random_change
           [] current_lane = RIGHT -> right_random_change
           [] OTHER -> {LANE_FOLLOW}
    ELSE CASE current_lane = CENTER ->
                IF change_choice = {} THEN {LANE_FOLLOW} ELSE change_choice
           [] current_lane = LEFT ->
                IF RightGap THEN {LANE_CHANGE_RIGHT} ELSE {LANE_FOLLOW}
           [] current_lane = RIGHT ->
                IF LeftGap THEN {LANE_CHANGE_LEFT} ELSE {LANE_FOLLOW}
           [] OTHER -> {LANE_FOLLOW}

\* the enablement gate on the candidate
Gate_Off(candidate) == candidate

Gate(candidate) ==
    LET afterLeft == IF candidate = LANE_CHANGE_LEFT /\ ~enable_left_change
                     THEN LANE_FOLLOW ELSE candidate
    IN IF afterLeft = LANE_CHANGE_RIGHT /\ ~enable_right_change
       THEN LANE_FOLLOW ELSE afterLeft

\* Python truth value of self.last_lane: None and 0 are false
Truthy(lane) == lane # NoLane /\ lane # 0

\* the state transition on the gated candidate: the action, the target lane and
\* the new lane_change_mode
Adopt(current_lane, gated) ==
    [action |-> gated,
     target |-> current_lane - ActionValue(gated),
     mode |-> (gated # LANE_FOLLOW)]

Hold(current_lane) ==
    [action |-> LANE_FOLLOW, target |-> current_lane, mode |-> FALSE]

Transition_Uncommitted(current_lane, ltl, la, gated) ==
    IF Truthy(last_lane)
    THEN IF current_lane = last_lane
         THEN Adopt(current_lane, gated)
         ELSE Hold(current_lane)
    ELSE Hold(current_lane)

Transition_ClearOnTarget(current_lane, ltl, la, gated) ==
    IF Truthy(last_lane)
    THEN IF current_lane = last_lane \/ (lane_change_mode /\ current_lane # ltl)
         THEN IF lane_change_mode
              THEN [action |-> la, target |-> ltl, mode |-> TRUE]
              ELSE Adopt(current_lane, gated)
         ELSE Hold(current_lane)
    ELSE Hold(current_lane)

Transition_AdoptOnArrival(current_lane, ltl, la, gated) ==
    IF Truthy(last_lane)
    THEN IF current_lane = last_lane /\ lane_change_mode
         THEN [action |-> la, target |-> ltl, mode |-> TRUE]
         ELSE Adopt(current_lane, gated)
    ELSE Hold(current_lane)

Transition_AdoptOnFirstTick(current_lane, ltl, la, gated) ==
    IF Truthy(last_lane)
    THEN IF current_lane = last_lane
         THEN IF lane_change_mode
              THEN [action |-> la, target |-> ltl, mode |-> TRUE]
              ELSE Adopt(current_lane, gated)
         ELSE Hold(current_lane)
    ELSE Adopt(current_lane, gated)

Transition_Redecide(current_lane, ltl, la, gated) ==
    IF Truthy(last_lane)
    THEN IF current_lane = last_lane
         THEN IF lane_change_mode
              THEN [action |-> gated,
                    target |-> current_lane - ActionValue(gated),
                    mode |-> TRUE]
              ELSE Adopt(current_lane, gated)
         ELSE Hold(current_lane)
    ELSE Hold(current_lane)

Transition(current_lane, ltl, la, gated) ==
    IF Truthy(last_lane)
    THEN IF current_lane = last_lane
         THEN IF lane_change_mode
              THEN [action |-> la, target |-> ltl, mode |-> TRUE]
              ELSE Adopt(current_lane, gated)
         ELSE Hold(current_lane)
    ELSE Hold(current_lane)

-----------------------------------------------------------------------------
(* Trajectory tracker: _pid_run_step *)

\* 4 * _min_distance, for the lateral offset d of the vehicle from the lane centre
MinDistance4(d) == _base_min_distance * (4 - d)

\* the look-ahead offset next_wp, by the if/elif chain on _min_distance
NextWp(d) ==
    IF MinDistance4(d) > 4 * 1 THEN 2
    ELSE IF MinDistance4(d) > 4 * 2 THEN 3
    ELSE IF MinDistance4(d) > 4 * 3 THEN 4
    ELSE 1

TargetBuffer(action) ==
    CASE action = LANE_CHANGE_LEFT -> "left_wps"
      [] action = LANE_FOLLOW -> "center_wps"
      [] action = LANE_CHANGE_RIGHT -> "right_wps"

BufferLen(action) ==
    CASE action = LANE_CHANGE_LEFT -> left_wps
      [] action = LANE_FOLLOW -> center_wps
      [] action = LANE_CHANGE_RIGHT -> right_wps

\* the speed handed to the PID controller
TargetSpeed_Cruise(action) == _target_speed

TargetSpeed(action) == IF action = LANE_FOLLOW THEN _target_speed ELSE 50

\* the list index read from the buffer
TargetIndex_OffByOne(action, nw) ==
    IF action = LANE_FOLLOW THEN nw + 2 ELSE nw + 15

TargetIndex(action, nw) ==
    IF action = LANE_FOLLOW THEN nw + 2 - 1 ELSE nw + 15 - 1

\* list[i] raises IndexError unless 0 <= i < len (i is never negative here)
IndexInRange(action, nw) == TargetIndex(action, nw) < BufferLen(action)

-----------------------------------------------------------------------------
(* Hazard detection *)

\* the detection distances of run_step, by the speed of the vehicle
MaxVehicleDistance_Fixed(speed) == _base_vehicle_threshold

MaxVehicleDistance(speed) == _base_vehicle_threshold + speed

MaxTlightDistance(speed) == _base_tlight_threshold + speed

_vehicle_obstacle_detected_Inclusive(max_dis) ==
    distance_to_center_front <= max_dis /\ ~_ignore_vehicle

_vehicle_obstacle_detected(max_dis) ==
    distance_to_center_front < max_dis /\ ~_ignore_vehicle

\* is_within_distance(trigger, vehicle, max_distance, [low, up]) of utils.misc
is_within_distance(dist, angle, max_distance, low, up) ==
    dist <= max_distance /\ low <= angle /\ angle <= up

\* one pass of the for loop: TRUE iff the light is not skipped and is returned
Governs_AnyDirection(light, max_distance) ==
    /\ ~(light.dist > max_distance)
    /\ light.road
    /\ light.state = Red
    /\ is_within_distance(light.dist, light.angle, max_distance, 0, 90)

Governs(light, max_distance) ==
    /\ ~(light.dist > max_distance)
    /\ light.road
    /\ ~(light.dot < 0)
    /\ light.state = Red
    /\ is_within_distance(light.dist, light.angle, max_distance, 0, 90)

\* the for loop from position i: the first light returned, or NoLight
RECURSIVE Scan(_, _, _)
Scan(i, lights, max_distance) ==
    IF i > Len(lights) THEN NoLight
    ELSE IF Governs(lights[i], max_distance) THEN i
    ELSE Scan(i + 1, lights, max_distance)

\* the result (hazard, the new self._last_traffic_light)
_affected_by_traffic_light_Sticky(lights, max_dist) ==
    LET max_distance == IF max_dist = 0 THEN _base_tlight_threshold ELSE max_dist
        found == Scan(1, lights, max_distance)
    IN IF _ignore_traffic_lights
       THEN [hazard |-> FALSE, light |-> _last_traffic_light]
       ELSE IF _last_traffic_light # NoLight
       THEN [hazard |-> TRUE, light |-> _last_traffic_light]
       ELSE [hazard |-> found # NoLight, light |-> found]

_affected_by_traffic_light_ClearOnIgnore(lights, max_dist) ==
    LET max_distance == IF max_dist = 0 THEN _base_tlight_threshold ELSE max_dist
        found == Scan(1, lights, max_distance)
    IN IF _ignore_traffic_lights
       THEN [hazard |-> FALSE, light |-> NoLight]
       ELSE IF _last_traffic_light # NoLight /\ lights[_last_traffic_light].state = Red
       THEN [hazard |-> TRUE, light |-> _last_traffic_light]
       ELSE [hazard |-> found # NoLight, light |-> found]

_affected_by_traffic_light(lights, max_dist) ==
    LET max_distance == IF max_dist = 0 THEN _base_tlight_threshold ELSE max_dist
        found == Scan(1, lights, max_distance)
    IN IF _ignore_traffic_lights
       THEN [hazard |-> FALSE, light |-> _last_traffic_light]
       ELSE IF _last_traffic_light # NoLight /\ lights[_last_traffic_light].state = Red
       THEN [hazard |-> TRUE, light |-> _last_traffic_light]
       ELSE [hazard |-> found # NoLight, light |-> found]

-----------------------------------------------------------------------------
(* Arbitration: run_step *)

clip(x, lo, hi) == IF x < lo THEN lo ELSE IF x > hi THEN hi ELSE x

add_emergency_stop_Straighten(c) ==
    [throttle |-> 0, brake |-> _max_brake, steer |-> 0, gear |-> c.gear,
     hand_brake |-> FALSE]

add_emergency_stop(c) ==
    [throttle |-> 0, brake |-> _max_brake, steer |-> c.steer, gear |-> c.gear,
     hand_brake |-> FALSE]

\* the steer clamp under modify_change_steer
ModifySteer_Mirrored(c, mcs, action) ==
    IF mcs /\ action = LANE_CHANGE_LEFT THEN [c EXCEPT !.steer = clip(c.steer, 0, 10)]
    ELSE IF mcs /\ action = LANE_CHANGE_RIGHT THEN [c EXCEPT !.steer = clip(c.steer, -10, 0)]
    ELSE c

ModifySteer(c, mcs, action) ==
    IF mcs /\ action = LANE_CHANGE_LEFT THEN [c EXCEPT !.steer = clip(c.steer, -10, 0)]
    ELSE IF mcs /\ action = LANE_CHANGE_RIGHT THEN [c EXCEPT !.steer = clip(c.steer, 0, 10)]
    ELSE c

EmergencyStop_FollowOnly(tlight, vehicle, action) ==
    action = LANE_FOLLOW /\ (tlight \/ vehicle)

EmergencyStop(tlight, vehicle, action) ==
    tlight \/ (action = LANE_FOLLOW /\ vehicle)

\* run_step up to the TypeError of `None < max_dis` in _vehicle_obstacle_detected,
\* raised when set_info has not supplied the distances yet
RunStepTypeError ==
    /\ outcome' = "TypeError"
    /\ max_tlight_distance' = NoDistance
    /\ target_speed' = NoSpeed
    /\ affected_by_vehicle' = FALSE
    /\ affected_by_tlight' = FALSE
    /\ lane_change' = NoAction
    /\ new_action' = NoAction
    /\ new_target_lane' = NoLane
    /\ next_wp' = 0
    /\ lateral' = 0
    /\ raw_control' = NoControl
    /\ control' = NoControl
    /\ target_waypoint' = NoWaypoint
    /\ UNCHANGED <<last_lane, lane_change_mode, _last_traffic_light>>

RunStepBody_RolledBack(current_lane, ltl, la, mcs, w, candidate) ==
    LET vehicle == _vehicle_obstacle_detected(MaxVehicleDistance(w.speed))
        tlight == _affected_by_traffic_light(w.lights, MaxTlightDistance(w.speed))
        decided == Transition(current_lane, ltl, la, Gate(candidate))
        nw == NextWp(w.lateral)
        steered == ModifySteer(w.pid, mcs, decided.action)
    IN /\ affected_by_vehicle' = vehicle
       /\ affected_by_tlight' = tlight.hazard
       /\ lane_change' = candidate
       /\ new_action' = decided.action
       /\ new_target_lane' = decided.target
       /\ next_wp' = nw
       /\ max_tlight_distance' = MaxTlightDistance(w.speed)
       /\ target_speed' = TargetSpeed(decided.action)
       /\ lateral' = w.lateral
       /\ IF IndexInRange(decided.action, nw)
          THEN /\ _last_traffic_light' = tlight.light
               /\ lane_change_mode' = decided.mode
               /\ last_lane' = current_lane
               /\ target_waypoint' = <<TargetBuffer(decided.action), TargetIndex(decided.action, nw)>>
               /\ raw_control' = w.pid
               /\ control' = IF EmergencyStop(tlight.hazard, vehicle, decided.action)
                             THEN add_emergency_stop(steered) ELSE steered
               /\ outcome' = "returned"
          ELSE /\ UNCHANGED <<_last_traffic_light, lane_change_mode, last_lane>>
               /\ outcome' = "IndexError"
               /\ target_waypoint' = NoWaypoint
               /\ raw_control' = NoControl
               /\ control' = NoControl

\* run_step from _vehicle_obstacle_detected on, for the candidate the policy drew
RunStepBody(current_lane, ltl, la, mcs, w, candidate) ==
    LET vehicle == _vehicle_obstacle_detected(MaxVehicleDistance(w.speed))
        tlight == _affected_by_traffic_light(w.lights, MaxTlightDistance(w.speed))
        decided == Transition(current_lane, ltl, la, Gate(candidate))
        nw == NextWp(w.lateral)
        steered == ModifySteer(w.pid, mcs, decided.action)
    IN /\ affected_by_vehicle' = vehicle
       /\ affected_by_tlight' = tlight.hazard
       /\ _last_traffic_light' = tlight.light
       /\ lane_change' = candidate
       /\ new_action' = decided.action
       /\ new_target_lane' = decided.target
       /\ lane_change_mode' = decided.mode
       /\ last_lane' = current_lane
       /\ next_wp' = nw
       /\ max_tlight_distance' = MaxTlightDistance(w.speed)
       /\ target_speed' = TargetSpeed(decided.action)
       /\ lateral' = w.lateral
       /\ IF IndexInRange(decided.action, nw)
          THEN /\ target_waypoint' = <<TargetBuffer(decided.action), TargetIndex(decided.action, nw)>>
               /\ raw_control' = w.pid
               /\ control' = IF EmergencyStop(tlight.hazard, vehicle, decided.action)
                             THEN add_emergency_stop(steered) ELSE steered
               /\ outcome' = "returned"
          ELSE /\ outcome' = "IndexError"
               /\ target_waypoint' = NoWaypoint
               /\ raw_control' = NoControl
               /\ control' = NoControl

\* run_step after the increment of autopilot_step
RunStepCall(current_lane, ltl, la, mcs, w) ==
    /\ last_target_lane' = ltl
    /\ last_action' = la
    /\ modify_change_steer' = mcs
    /\ vehicle_speed' = w.speed
    /\ lights_list' = w.lights
    /\ entry_last_lane' = last_lane
    /\ entry_lane_change_mode' = lane_change_mode
    /\ entry_last_traffic_light' = _last_traffic_light
    /\ current_lane_arg' = current_lane
    /\ max_vehicle_distance' = MaxVehicleDistance(w.speed)
    /\ IF distance_to_center_front = NoDistance
       THEN RunStepTypeError
       ELSE \E candidate \in PolicyChoice(current_lane) :
                RunStepBody(current_lane, ltl, la, mcs, w, candidate)
    /\ UNCHANGED <<configVars, perceptionVars, get_step_result>>

run_step_CountReturns(current_lane, ltl, la, mcs, w) ==
    /\ autopilot_step < MaxStep
    /\ RunStepCall(current_lane, ltl, la, mcs, w)
    /\ autopilot_step' = IF outcome' = "returned" THEN autopilot_step + 1 ELSE autopilot_step

run_step(current_lane, ltl, la, mcs, w) ==
    /\ autopilot_step < MaxStep
    /\ autopilot_step' = autopilot_step + 1
    /\ RunStepCall(current_lane, ltl, la, mcs, w)

-----------------------------------------------------------------------------
(* The other operations *)

\* the enablement flags set_info leaves
EnableLeftAfter_Swapped(info) ==
    IF _ignore_change_gap
    THEN IF info.left_wps # 0 THEN TRUE ELSE enable_left_change
    ELSE info.right_wps # 0

EnableLeftAfter(info) ==
    IF _ignore_change_gap
    THEN IF info.left_wps # 0 THEN TRUE ELSE enable_left_change
    ELSE info.left_wps # 0

EnableRightAfter_Sticky(info) ==
    IF info.right_wps # 0 THEN TRUE ELSE enable_right_change

EnableRightAfter(info) ==
    IF _ignore_change_gap
    THEN IF info.right_wps # 0 THEN TRUE ELSE enable_right_change
    ELSE info.right_wps # 0

set_info(info) ==
    /\ left_wps' = info.left_wps
    /\ center_wps' = info.center_wps
    /\ right_wps' = info.right_wps
    /\ distance_to_left_front' = info.front[1]
    /\ distance_to_center_front' = info.front[2]
    /\ distance_to_right_front' = info.front[3]
    /\ distance_to_left_rear' = info.rear[1]
    /\ distance_to_right_rear' = info.rear[3]
    /\ enable_left_change' = EnableLeftAfter(info)
    /\ enable_right_change' = EnableRightAfter(info)
    /\ UNCHANGED <<configVars, agentVars, callVars, get_step_result>>

ignore_traffic_lights(active) ==
    /\ _ignore_traffic_lights' = active
    /\ UNCHANGED <<random_lane_change, _ignore_change_gap, _ignore_vehicle, _ignore_stop_signs>>
    /\ UNCHANGED <<perceptionVars, agentVars, callVars, get_step_result>>

ignore_stop_signs(active) ==
    /\ _ignore_stop_signs' = active
    /\ UNCHANGED <<random_lane_change, _ignore_change_gap, _ignore_traffic_lights, _ignore_vehicle>>
    /\ UNCHANGED <<perceptionVars, agentVars, callVars, get_step_result>>

ignore_vehicles(active) ==
    /\ _ignore_vehicle' = active
    /\ UNCHANGED <<random_lane_change, _ignore_change_gap, _ignore_traffic_lights, _ignore_stop_signs>>
    /\ UNCHANGED <<perceptionVars, agentVars, callVars, get_step_result>>

get_step ==
    /\ get_step_result' = autopilot_step
    /\ UNCHANGED <<configVars, perceptionVars, agentVars, callVars>>

\* __init__ with the options opt
Constructed(opt) ==
    /\ random_lane_change = opt.random_lane_change
    /\ _ignore_change_gap = opt.ignore_change_gap
    /\ _ignore_traffic_lights = opt.ignore_traffic_lights
    /\ _ignore_vehicle = opt.ignore_front_vehicle
    /\ _ignore_stop_signs = FALSE
    /\ left_wps = 0
    /\ center_wps = 0
    /\ right_wps = 0
    /\ distance_to_left_front = NoDistance
    /\ distance_to_center_front = NoDistance
    /\ distance_to_right_front = NoDistance
    /\ distance_to_left_rear = NoDistance
    /\ distance_to_right_rear = NoDistance
    /\ enable_left_change = TRUE
    /\ enable_right_change = TRUE
    /\ last_lane = NoLane
    /\ lane_change_mode = FALSE
    /\ autopilot_step = 0
    /\ _last_traffic_light = NoLight
    /\ target_waypoint = NoWaypoint
    /\ last_target_lane = NoLane
    /\ last_action = NoAction
    /\ entry_last_lane = NoLane
    /\ entry_lane_change_mode = FALSE
    /\ entry_last_traffic_light = NoLight
    /\ modify_change_steer = FALSE
    /\ vehicle_speed = 0
    /\ lights_list = <<>>
    /\ lateral = 0
    /\ raw_control = NoControl
    /\ affected_by_vehicle = FALSE
    /\ affected_by_tlight = FALSE
    /\ lane_change = NoAction
    /\ new_action = NoAction
    /\ new_target_lane = NoLane
    /\ next_wp = 0
    /\ control = NoControl
    /\ outcome = "none"
    /\ current_lane_arg = NoLane
    /\ max_vehicle_distance = NoDistance
    /\ max_tlight_distance = NoDistance
    /\ target_speed = NoSpeed
    /\ get_step_result = NoStep

-----------------------------------------------------------------------------
(* Inputs *)

\* the lanes callers report: the three known ones, and 0 and -4 outside them
Lanes == KnownLanes \cup {0, -4}

\* (last_action, last_target_lane) pairs a caller may pass instead of the
\* previous step's results
CallerArgs ==
    {<<LANE_FOLLOW, CENTER>>, <<LANE_CHANGE_LEFT, LEFT>>, <<LANE_CHANGE_RIGHT, CENTER>>}

Info(l, c, r, front, rear) ==
    [left_wps |-> l, center_wps |-> c, right_wps |-> r, front |-> front, rear |-> rear]

\* gaps around the margins 5 and 1, with all buffers long enough; the first
\* one has the vehicle ahead within _base_vehicle_threshold
GapInfos ==
    {Info(17, 4, 17, <<4, 5, 4>>, <<2, 0, 2>>),
     Info(17, 4, 17, <<18, 12, 10>>, <<2, 0, 2>>),
     Info(17, 4, 17, <<10, 12, 18>>, <<2, 0, 2>>),
     Info(17, 4, 17, <<18, 12, 18>>, <<2, 0, 2>>),
     Info(17, 4, 17, <<18, 12, 18>>, <<1, 0, 1>>),
     Info(17, 4, 17, <<17, 12, 17>>, <<2, 0, 2>>)}

\* buffer lengths around the indices the tracker reads (2, 3 and 15, 16)
BufferInfos ==
    {Info(0, 4, 17, <<18, 12, 18>>, <<2, 0, 2>>),
     Info(17, 4, 0, <<18, 12, 18>>, <<2, 0, 2>>),
     Info(0, 3, 0, <<18, 12, 18>>, <<2, 0, 2>>),
     Info(16, 3, 16, <<18, 12, 18>>, <<2, 0, 2>>)}

Infos == GapInfos \cup BufferInfos

Light(state, dist, road, dot, angle) ==
    [state |-> state, dist |-> dist, road |-> road, dot |-> dot, angle |-> angle]

World(speed, lights, d, pid) ==
    [speed |-> speed, lights |-> lights, lateral |-> d, pid |-> pid]

Cruise == [throttle |-> 5, brake |-> 0, steer |-> 2, gear |-> 1]

Option(random, gap, tlights, vehicle) ==
    [random_lane_change |-> random, ignore_change_gap |-> gap,
     ignore_traffic_lights |-> tlights, ignore_front_vehicle |-> vehicle]

\* the operations, over the inputs a driver draws from
SetInfoOver(infos) == \E info \in infos : set_info(info)

\* the results of the previous call, when it returned
Results == IF outcome = "returned" THEN {<<new_action, new_target_lane>>} ELSE {}

RunStepOver(lanes, callerArgs, flags, worlds) ==
    \E current_lane \in lanes, args \in callerArgs \cup Results, mcs \in flags, w \in worlds :
        run_step(current_lane, args[2], args[1], mcs, w)

-----------------------------------------------------------------------------
(* Spec: the lane-change decision.  A driver that configures by opt_dict   *)
(* only, in a world without traffic lights, the vehicle on the lane centre *)

Options == {Option(random, gap, FALSE, FALSE) : random \in BOOLEAN, gap \in BOOLEAN}

Worlds == {World(0, <<>>, 0, Cruise)}

Init == \E opt \in Options : Constructed(opt)

SetInfo == SetInfoOver(Infos)

RunStep == RunStepOver(Lanes, CallerArgs, {FALSE}, Worlds)

Next == SetInfo \/ RunStep

Spec == Init /\ [][Next]_vars

-----------------------------------------------------------------------------
(* SpecPassBack: the same driver, calling run_step with the action and     *)
(* target lane the previous call returned; a call that raised returned     *)
(* nothing to pass back, and ends the run                                  *)

FirstStep ==
    /\ autopilot_step = 0
    /\ RunStepOver(Lanes, CallerArgs, {FALSE}, Worlds)

PassBackStep ==
    /\ outcome = "returned"
    /\ RunStepOver(Lanes, {}, {FALSE}, Worlds)

NextPassBack == SetInfo \/ FirstStep \/ PassBackStep

SpecPassBack == Init /\ [][NextPassBack]_vars

-----------------------------------------------------------------------------
(* SpecTracker: the trajectory tracker.  The randomized policy from the    *)
(* centre lane, buffers of every length around the indices read, the       *)
(* vehicle at several offsets from the lane centre                         *)

TrackerOptions == {Option(TRUE, gap, FALSE, FALSE) : gap \in BOOLEAN}

TrackerInfos ==
    {Info(l, c, r, <<18, 12, 18>>, <<2, 0, 2>>) :
        l \in {0, 15, 16, 17}, c \in {2, 3, 4}, r \in {0, 16, 17}}

TrackerWorlds == {World(0, <<>>, d, Cruise) : d \in 0..MaxLateral}

InitTracker == \E opt \in TrackerOptions : Constructed(opt)

SetInfoTracker == SetInfoOver(TrackerInfos)

RunStepTracker == RunStepOver({CENTER}, {}, {FALSE}, TrackerWorlds)

FirstStepTracker ==
    /\ autopilot_step = 0
    /\ RunStepOver({CENTER}, {<<LANE_FOLLOW, CENTER>>}, {FALSE}, TrackerWorlds)

NextTracker == SetInfoTracker \/ FirstStepTracker \/ RunStepTracker

SpecTracker == InitTracker /\ [][NextTracker]_vars

-----------------------------------------------------------------------------
(* SpecHazard: hazard detection and arbitration.  A driver that toggles    *)
(* the ignore_* setters, among traffic lights, at two speeds, with a PID   *)
(* controller that accelerates or brakes                                   *)

HazardOptions == {Option(FALSE, TRUE, tlights, FALSE) : tlights \in BOOLEAN}

\* a gap on the left with the vehicle ahead at _base_vehicle_threshold, no gap
\* with it nearer
HazardInfos ==
    {Info(17, 4, 17, <<16, 10, 10>>, <<2, 0, 2>>),
     Info(17, 4, 17, <<4, 5, 4>>, <<2, 0, 2>>)}

\* lights on the road of the vehicle, ahead of it: within _base_tlight_threshold,
\* or beyond it and within it plus the higher speed
NearRed == Light(Red, 3, TRUE, 1, 45)
NearGreen == Light(Green, 3, TRUE, 1, 45)
FarRed == Light(Red, 10, TRUE, 1, 45)

\* the lights of the world in list order; the far one, if any, is listed first
LightLists ==
    {lights \in [1..NumLights -> {NearRed, NearGreen, FarRed}] :
        \A i \in 2..NumLights : lights[i] # FarRed}

Braking == [throttle |-> 0, brake |-> 2, steer |-> -2, gear |-> 1]

Speeds == {0, 10}

HazardWorlds ==
    {World(speed, lights, 0, pid) :
        speed \in Speeds, lights \in LightLists, pid \in {Cruise, Braking}}

InitHazard == \E opt \in HazardOptions : Constructed(opt)

SetInfoHazard == SetInfoOver(HazardInfos)

IgnoreTrafficLights == \E active \in BOOLEAN : ignore_traffic_lights(active)

IgnoreVehicles == \E active \in BOOLEAN : ignore_vehicles(active)

FirstStepHazard ==
    /\ autopilot_step = 0
    /\ RunStepOver({CENTER}, {<<LANE_FOLLOW, CENTER>>}, {FALSE}, HazardWorlds)

RunStepHazard == RunStepOver({CENTER}, {}, {FALSE}, HazardWorlds)

NextHazard ==
    SetInfoHazard \/ FirstStepHazard \/ RunStepHazard \/ IgnoreTrafficLights \/ IgnoreVehicles

SpecHazard == InitHazard /\ [][NextHazard]_vars

-----------------------------------------------------------------------------
(* SpecCounter: every operation of the agent, get_step included, with      *)
(* run_step calls that return and calls that raise                         *)

CounterOptions == {Option(FALSE, FALSE, FALSE, FALSE)}

\* a centre buffer long enough, and one too short
CounterInfos ==
    {Info(17, 4, 17, <<16, 10, 10>>, <<2, 0, 2>>),
     Info(0, 0, 0, <<4, 5, 4>>, <<2, 0, 2>>)}

InitCounter == \E opt \in CounterOptions : Constructed(opt)

SetInfoCounter == SetInfoOver(CounterInfos)

RunStepCounter == RunStepOver({CENTER, LEFT}, {<<LANE_FOLLOW, CENTER>>}, {FALSE}, Worlds)

IgnoreStopSigns == \E active \in BOOLEAN : ignore_stop_signs(active)

GetStep == get_step

NextCounter ==
    \/ SetInfoCounter \/ RunStepCounter \/ GetStep
    \/ IgnoreTrafficLights \/ IgnoreStopSigns \/ IgnoreVehicles

SpecCounter == InitCounter /\ [][NextCounter]_vars

-----------------------------------------------------------------------------
(* SpecSteer: the control returned.  The randomized policy from the centre *)
(* lane, callers that set modify_change_steer or not, PID controllers that *)
(* steer to either side, with and without a red light and a near vehicle   *)

SteerOptions == {Option(TRUE, TRUE, FALSE, FALSE)}

Pid(steer) == [throttle |-> 5, brake |-> 0, steer |-> steer, gear |-> 1]

\* all lights green, or the first one red
SteerLights ==
    {[i \in 1..NumLights |-> NearGreen],
     [i \in 1..NumLights |-> IF i = 1 THEN NearRed ELSE NearGreen]}

SteerWorlds ==
    {World(0, lights, 0, Pid(steer)) : lights \in SteerLights, steer \in {-8, 0, 8}}

InitSteer == \E opt \in SteerOptions : Constructed(opt)

SetInfoSteer == SetInfoOver(HazardInfos)

FirstStepSteer ==
    /\ autopilot_step = 0
    /\ RunStepOver({CENTER}, {<<LANE_FOLLOW, CENTER>>}, BOOLEAN, SteerWorlds)

RunStepSteer == RunStepOver({CENTER}, {}, BOOLEAN, SteerWorlds)

NextSteer == SetInfoSteer \/ FirstStepSteer \/ RunStepSteer

SpecSteer == InitSteer /\ [][NextSteer]_vars

-----------------------------------------------------------------------------
(* SpecScan: the scan over the traffic lights.  The vehicle at rest holds  *)
(* its lane among lights that pass every filter of the scan, at the edge   *)
(* of each, or fail exactly one                                            *)

ScanOptions == {Option(FALSE, TRUE, tlights, FALSE) : tlights \in BOOLEAN}

ScanInfos == {Info(17, 4, 17, <<4, 12, 4>>, <<2, 0, 2>>)}

EdgeRed == Light(Red, 5, TRUE, 0, 90)
BeyondRed == Light(Red, 6, TRUE, 1, 45)
OtherRoadRed == Light(Red, 3, FALSE, 1, 45)
OpposingRed == Light(Red, 3, TRUE, -1, 45)
AsideRed == Light(Red, 3, TRUE, 1, 120)

ScanLights ==
    [1..NumLights -> {EdgeRed, BeyondRed, OtherRoadRed, OpposingRed, AsideRed, NearGreen}]

ScanWorlds == {World(0, lights, 0, Cruise) : lights \in ScanLights}

InitScan == \E opt \in ScanOptions : Constructed(opt)

SetInfoScan == SetInfoOver(ScanInfos)

RunStepScan == RunStepOver({CENTER}, {<<LANE_FOLLOW, CENTER>>}, {FALSE}, ScanWorlds)

NextScan == SetInfoScan \/ RunStepScan

SpecScan == InitScan /\ [][NextScan]_vars

-----------------------------------------------------------------------------
(* SpecFailure: steps that fail in the tracker.  The gap-based policy,     *)
(* buffers long enough and too short for the look-ahead, lights that turn, *)
(* and a caller that passes back a returned decision or LANE_FOLLOW        *)

FailureOptions == {Option(FALSE, FALSE, FALSE, FALSE)}

\* a gap on the left with left_wps long enough and one waypoint short of the
\* index of a change, and no gap with center_wps too short for lane following
FailureInfos ==
    {Info(17, 4, 17, <<16, 10, 10>>, <<2, 0, 2>>),
     Info(16, 4, 17, <<16, 10, 10>>, <<2, 0, 2>>),
     Info(17, 1, 17, <<4, 5, 4>>, <<2, 0, 2>>)}

FailureLights == [1..NumLights -> {NearRed, NearGreen}]

FailureWorlds == {World(0, lights, 0, Cruise) : lights \in FailureLights}

InitFailure == \E opt \in FailureOptions : Constructed(opt)

SetInfoFailure == SetInfoOver(FailureInfos)

RunStepFailure ==
    RunStepOver({CENTER, LEFT}, {<<LANE_FOLLOW, CENTER>>}, {FALSE}, FailureWorlds)

NextFailure == SetInfoFailure \/ RunStepFailure

SpecFailure == InitFailure /\ [][NextFailure]_vars

-----------------------------------------------------------------------------
(* Properties *)

Changes == {LANE_CHANGE_LEFT, LANE_CHANGE_RIGHT}

\* this transition is a run_step call
IsStep == autopilot_step' = autopilot_step + 1

\* the latest call ran _lane_change_action; last_lane is then its current_lane
Decided == outcome \in {"returned", "IndexError"}

\* the latest call took the branch of line 307, current_lane == self.last_lane
SameLane == Decided /\ Truthy(entry_last_lane) /\ last_lane = entry_last_lane

\* the latest call continued a change in progress (lines 308-311)
Continued == SameLane /\ entry_lane_change_mode

\* the latest call initiated a change (line 315)
Initiated == Decided /\ ~entry_lane_change_mode /\ lane_change_mode

\* C1, as stated: once a step has returned a change action with the change
\* in progress, the next step in the same lane that returns, returns the same
\* action and the same target lane, whatever the caller passes.
C1_Original ==
    [][(/\ outcome = "returned" /\ new_action \in Changes /\ lane_change_mode
        /\ IsStep /\ last_lane' = last_lane /\ outcome' = "returned")
       => (new_action' = new_action /\ new_target_lane' = new_target_lane)]_vars

\* C1, amended: once a step has returned a change action with the change in
\* progress, the next step in the same lane, when called with the action and
\* the target lane that step returned, decides the same action and the same
\* target lane and leaves the change in progress, so every such step that
\* returns, returns them.
C1_Commitment ==
    [][(/\ outcome = "returned" /\ new_action \in Changes /\ lane_change_mode
        /\ IsStep /\ last_lane' = last_lane
        /\ last_action' = new_action /\ last_target_lane' = new_target_lane)
       => (/\ new_action' = new_action
           /\ new_target_lane' = new_target_lane
           /\ lane_change_mode')]_vars

C1_Witness ==
    /\ Continued /\ outcome = "returned" /\ lane_change_mode
    /\ new_action = LANE_CHANGE_LEFT /\ new_target_lane = LEFT /\ last_lane = CENTER
    /\ last_action = new_action /\ last_target_lane = new_target_lane
    /\ lane_change = LANE_CHANGE_RIGHT

C2_Post ==
    outcome = "returned" =>
        /\ ~enable_left_change => new_action # LANE_CHANGE_LEFT
        /\ ~enable_right_change => new_action # LANE_CHANGE_RIGHT

\* C2: a step called while enable_left_change is false never returns
\* LANE_CHANGE_LEFT, and one called while enable_right_change is false never
\* returns LANE_CHANGE_RIGHT, a change in progress or not.
C2_Gating == [][IsStep => C2_Post']_vars

C2_Witness ==
    /\ Continued /\ outcome = "returned"
    /\ new_action = LANE_CHANGE_RIGHT
    /\ ~enable_left_change /\ left_wps = 0

C3_Post ==
    /\ Initiated =>
        /\ new_action \in Changes
        /\ new_action = LANE_CHANGE_LEFT => enable_left_change
        /\ new_action = LANE_CHANGE_RIGHT => enable_right_change
    /\ (/\ Decided /\ ~entry_lane_change_mode
        /\ \/ lane_change = LANE_CHANGE_LEFT /\ ~enable_left_change
           \/ lane_change = LANE_CHANGE_RIGHT /\ ~enable_right_change)
       => new_action = LANE_FOLLOW /\ ~lane_change_mode

\* C3: a step that sets lane_change_mode decides LANE_CHANGE_LEFT only with
\* enable_left_change true and LANE_CHANGE_RIGHT only with enable_right_change
\* true, under either policy; with no change in progress, a candidate toward a
\* disabled side gives LANE_FOLLOW and initiates nothing.
C3_NoChangeTowardDisabledSide == [][IsStep => C3_Post']_vars

C3_Witness ==
    /\ Initiated /\ outcome = "returned" /\ ~random_lane_change
    /\ new_action = LANE_CHANGE_LEFT /\ enable_left_change /\ ~enable_right_change

C7_CompletedChange ==
    (Decided /\ entry_last_lane # NoLane /\ last_lane # entry_last_lane) =>
        /\ new_action = LANE_FOLLOW
        /\ new_target_lane = last_lane
        /\ ~lane_change_mode

C7_Witness ==
    /\ Decided /\ Truthy(entry_last_lane) /\ last_lane # entry_last_lane
    /\ outcome = "returned" /\ entry_lane_change_mode
    /\ lane_change = LANE_CHANGE_RIGHT /\ enable_right_change
    /\ last_action = LANE_CHANGE_LEFT
    /\ new_action = LANE_FOLLOW

\* C10: a step whose current lane is none of LEFT, CENTER, RIGHT decides
\* LANE_FOLLOW, under either policy, a change in progress before it or not.
C10_UnrecognizedLane ==
    (Decided /\ last_lane \notin KnownLanes) =>
        /\ lane_change = LANE_FOLLOW
        /\ new_action = LANE_FOLLOW
        /\ ~lane_change_mode

C10_Witness ==
    /\ Decided /\ last_lane = -4 /\ entry_lane_change_mode
    /\ outcome = "returned" /\ new_action = LANE_FOLLOW

\* C8: with the caller passing back the results of the step before, a step
\* in one of the lanes LEFT, CENTER, RIGHT that decides LANE_FOLLOW has its
\* current lane as the target, and a step that initiates a change has the
\* target current_lane - action.value, the adjacent known lane on the side of
\* the change: LEFT or RIGHT from CENTER, CENTER from LEFT and from RIGHT.
C8_TargetLaneConsistency ==
    (Decided /\ last_lane \in KnownLanes) =>
        /\ new_action = LANE_FOLLOW => new_target_lane = last_lane
        /\ Initiated =>
            /\ new_target_lane = last_lane - ActionValue(new_action)
            /\ new_target_lane \in KnownLanes
            /\ last_lane = CENTER /\ new_action = LANE_CHANGE_LEFT => new_target_lane = LEFT
            /\ last_lane = CENTER /\ new_action = LANE_CHANGE_RIGHT => new_target_lane = RIGHT
            /\ last_lane \in {LEFT, RIGHT} => new_target_lane = CENTER

C8_Witness ==
    /\ Initiated /\ outcome = "returned" /\ autopilot_step > 1
    /\ last_lane = LEFT /\ new_action = LANE_CHANGE_RIGHT /\ new_target_lane = CENTER

C9_Post ==
    Decided =>
        LET base == IF new_action = LANE_FOLLOW THEN 2 ELSE 15
            length == CASE new_action = LANE_FOLLOW -> center_wps
                        [] new_action = LANE_CHANGE_LEFT -> left_wps
                        [] new_action = LANE_CHANGE_RIGHT -> right_wps
            name == CASE new_action = LANE_FOLLOW -> "center_wps"
                      [] new_action = LANE_CHANGE_LEFT -> "left_wps"
                      [] new_action = LANE_CHANGE_RIGHT -> "right_wps"
        IN IF length < base + next_wp
           THEN outcome = "IndexError" /\ control = NoControl
           ELSE /\ outcome = "returned" /\ control # NoControl
                /\ target_waypoint = <<name, base + next_wp - 1>>

\* C9: a step whose action selects a buffer shorter than the base offset (2
\* for LANE_FOLLOW, 15 for a change) plus next_wp, so without the entry at
\* index base + next_wp - 1, raises IndexError and returns no control; a step
\* that returns has read exactly that entry of that buffer.
C9_EmptyBufferCondition == [][IsStep => C9_Post']_vars

C9_Witness ==
    /\ outcome = "IndexError" /\ new_action = LANE_CHANGE_LEFT
    /\ enable_left_change /\ left_wps = 16 /\ next_wp = 2 /\ control = NoControl

\* C4: a step that returns with the traffic-light hazard raised returns
\* throttle 0 and brake _max_brake, whatever the action decided and whatever
\* the control of the PID controllers.
C4_HazardOverride ==
    (outcome = "returned" /\ affected_by_tlight) =>
        control.throttle = 0 /\ control.brake = _max_brake

C4_Witness ==
    /\ outcome = "returned" /\ affected_by_tlight
    /\ new_action = LANE_CHANGE_LEFT /\ ~affected_by_vehicle
    /\ raw_control.throttle > 0 /\ raw_control.brake # _max_brake
    /\ control.throttle = 0

\* the light the full scan of the for loop returns in the step being taken
FullScan == Scan(1, lights_list', _base_tlight_threshold + vehicle_speed')

\* the step being taken ran the hazard evaluation with a light cached that
\* is no longer Red
StaleCache ==
    /\ IsStep /\ outcome' # "TypeError"
    /\ _last_traffic_light # NoLight
    /\ lights_list'[_last_traffic_light].state # Red

FellThrough ==
    /\ _last_traffic_light' # _last_traffic_light
    /\ _last_traffic_light' = FullScan
    /\ affected_by_tlight' = (FullScan # NoLight)

\* C6, as stated: a step that finds a light cached whose state is no longer
\* Red drops it, and its light hazard and its cache are the result of the
\* scan over all the lights.
C6_Original == [][StaleCache => FellThrough]_vars

\* C6, amended: a step taken while _ignore_traffic_lights is false that finds
\* a light cached whose state is no longer Red drops it, and its light hazard
\* and its cache are the result of the scan over all the lights.
C6_CacheCorrectness == [][(StaleCache /\ ~_ignore_traffic_lights) => FellThrough]_vars

C6_Witness ==
    /\ Decided /\ ~_ignore_traffic_lights
    /\ entry_last_traffic_light = 1 /\ lights_list[1].state = Green
    /\ _last_traffic_light = 2 /\ affected_by_tlight

\* C11: the vehicle detection distance of a step is _base_vehicle_threshold
\* plus the speed read in that step and the traffic-light detection distance
\* is _base_tlight_threshold plus it, so both are strictly greater at the
\* greater of two speeds.
C11_SpeedScaledThreshold ==
    /\ outcome # "none" => max_vehicle_distance = _base_vehicle_threshold + vehicle_speed
    /\ Decided => max_tlight_distance = _base_tlight_threshold + vehicle_speed
    /\ \A s1 \in Speeds, s2 \in Speeds :
          s1 < s2 => /\ MaxVehicleDistance(s1) < MaxVehicleDistance(s2)
                     /\ MaxTlightDistance(s1) < MaxTlightDistance(s2)

C11_Witness ==
    /\ outcome = "returned" /\ vehicle_speed = 10
    /\ max_vehicle_distance = 20 /\ max_tlight_distance = 15
    /\ distance_to_center_front = 10 /\ affected_by_vehicle
    /\ entry_last_traffic_light = NoLight /\ lights_list[1] = FarRed
    /\ affected_by_tlight /\ _last_traffic_light = 1

\* C12: autopilot_step is 0 after construction; every run_step call, one
\* that raises included, increases it by exactly 1; set_info, the ignore_*
\* setters and get_step leave it as it is, and get_step returns it.
C12_StepCounter ==
    /\ autopilot_step = 0
    /\ [][/\ RunStepCounter => autopilot_step' = autopilot_step + 1
          /\ (SetInfoCounter \/ IgnoreTrafficLights \/ IgnoreStopSigns \/ IgnoreVehicles)
                => autopilot_step' = autopilot_step
          /\ GetStep => /\ autopilot_step' = autopilot_step
                        /\ get_step_result' = autopilot_step
          /\ autopilot_step' >= autopilot_step]_vars

C12_Witness ==
    /\ autopilot_step = 2 /\ get_step_result = 2
    /\ outcome = "IndexError" /\ _ignore_stop_signs /\ _ignore_vehicle

C13_Post ==
    outcome = "returned" =>
        /\ affected_by_vehicle <=>
              (/\ distance_to_center_front < _base_vehicle_threshold + vehicle_speed
               /\ ~_ignore_vehicle)
        /\ IF affected_by_tlight \/ (new_action = LANE_FOLLOW /\ affected_by_vehicle)
           THEN control.throttle = 0 /\ control.brake = _max_brake
           ELSE /\ control.throttle = raw_control.throttle
                /\ control.brake = raw_control.brake
                /\ ~(control.throttle = 0 /\ control.brake = _max_brake)

\* C13: a step that returns has applied the emergency stop (throttle 0, brake
\* _max_brake) exactly when the light hazard is raised, or the action it
\* decided is LANE_FOLLOW and the vehicle hazard is raised; the vehicle hazard
\* is raised exactly when distance_to_center_front is below
\* _base_vehicle_threshold plus the speed and _ignore_vehicle is false.  With
\* the vehicle hazard alone during a change, throttle and brake are those of
\* the PID controllers.
C13_EmergencyStopCondition == [][IsStep => C13_Post']_vars

C13_Witness ==
    /\ outcome = "returned" /\ new_action = LANE_CHANGE_LEFT
    /\ affected_by_vehicle /\ ~affected_by_tlight
    /\ raw_control = Cruise /\ control.throttle = 5 /\ control.brake = 0

\* C14, as stated: with m = _base_min_distance * (1 - d / 4) for the lateral
\* offset d of the step (kept times four here), next_wp is 1 when m <= 1, 2
\* when 1 < m <= 2, 3 when 2 < m <= 3 and 4 when m > 3.
C14_LookAheadMapping ==
    Decided =>
        LET m4 == _base_min_distance * (4 - lateral)
        IN next_wp = IF m4 <= 4 * 1 THEN 1
                     ELSE IF m4 <= 4 * 2 THEN 2
                     ELSE IF m4 <= 4 * 3 THEN 3
                     ELSE 4

\* the buffer matching the action the latest call decided
MatchingBuffer ==
    CASE new_action = LANE_FOLLOW -> "center_wps"
      [] new_action = LANE_CHANGE_LEFT -> "left_wps"
      [] new_action = LANE_CHANGE_RIGHT -> "right_wps"

SpeedByAction ==
    /\ new_action = LANE_FOLLOW => target_speed = _target_speed
    /\ new_action \in Changes => target_speed = 50

\* C15, as stated: a step that returns has called the PID controllers with
\* _target_speed for LANE_FOLLOW and 50 for a change, and with the entry of
\* the buffer matching the action at list index 2 + next_wp for LANE_FOLLOW
\* and 15 + next_wp for a change.
C15_Original ==
    outcome = "returned" =>
        /\ SpeedByAction
        /\ target_waypoint =
              <<MatchingBuffer, (IF new_action = LANE_FOLLOW THEN 2 ELSE 15) + next_wp>>

\* C15, amended: a step that returns has called the PID controllers with
\* _target_speed for LANE_FOLLOW and 50 for a change, and with the entry of
\* the buffer matching the action at list index 2 + next_wp - 1 for
\* LANE_FOLLOW and 15 + next_wp - 1 for a change.
C15_TargetSelection ==
    outcome = "returned" =>
        /\ SpeedByAction
        /\ target_waypoint =
              <<MatchingBuffer, (IF new_action = LANE_FOLLOW THEN 2 ELSE 15) + next_wp - 1>>

C15_Witness ==
    /\ outcome = "returned" /\ new_action = LANE_CHANGE_RIGHT
    /\ target_speed = 50 /\ next_wp = 2
    /\ target_waypoint = <<"right_wps", 16>>
    /\ left_wps = 0 /\ center_wps = 2 /\ right_wps = 17

\* the latest call clamped the steer: the flag was set and it decided a change
Clamping == modify_change_steer /\ new_action \in Changes

\* the steer of the PID controllers, clamped as the latest call does
ClampedSteer ==
    LET steer == raw_control.steer
    IN IF modify_change_steer /\ new_action = LANE_CHANGE_LEFT
       THEN (IF steer > 0 THEN 0 ELSE IF steer < -10 THEN -10 ELSE steer)
       ELSE IF modify_change_steer /\ new_action = LANE_CHANGE_RIGHT
       THEN (IF steer < 0 THEN 0 ELSE IF steer > 10 THEN 10 ELSE steer)
       ELSE steer

\* C16: a step called with modify_change_steer set returns a steer in [-1, 0]
\* when it decided LANE_CHANGE_LEFT and in [0, 1] when it decided
\* LANE_CHANGE_RIGHT, the steer of the PID controllers clipped to that
\* interval (steer is in tenths); without the flag, or deciding LANE_FOLLOW,
\* it returns the steer of the PID controllers.
C16_SteerClamping ==
    outcome = "returned" =>
        /\ control.steer = ClampedSteer
        /\ (modify_change_steer /\ new_action = LANE_CHANGE_LEFT)
             => control.steer \in -10..0
        /\ (modify_change_steer /\ new_action = LANE_CHANGE_RIGHT)
             => control.steer \in 0..10
        /\ ~Clamping => control.steer = raw_control.steer

C16_Witness ==
    /\ outcome = "returned" /\ modify_change_steer
    /\ new_action = LANE_CHANGE_LEFT /\ raw_control.steer = 8 /\ control.steer = 0

\* the latest call applied the emergency stop (run_step line 242)
Stopped == affected_by_tlight \/ (new_action = LANE_FOLLOW /\ affected_by_vehicle)

\* C17: a step that applies the emergency stop returns the steer it had
\* after the optional clamp and the gear of the PID controllers; a step that
\* applies neither the stop nor the clamp returns throttle, brake, steer and
\* gear of the PID controllers as they are.
C17_EmergencyStopFrame ==
    outcome = "returned" =>
        /\ Stopped => /\ control.steer = ClampedSteer
                      /\ control.gear = raw_control.gear
                      /\ control.throttle = 0 /\ control.brake = _max_brake
        /\ (~Stopped /\ ~Clamping) => control = raw_control

C17_Witness ==
    /\ outcome = "returned" /\ new_action = LANE_FOLLOW
    /\ affected_by_vehicle /\ ~affected_by_tlight
    /\ raw_control = Pid(8) /\ control.steer = 8 /\ control.gear = 1
    /\ control.throttle = 0 /\ control.brake = _max_brake

\* C18: a step that finds no lane recorded (the first one after
\* construction) decides LANE_FOLLOW with its current lane as the target and
\* no change in progress, whatever the candidate, the flags and the
\* last_action and last_target_lane of the caller, and records its current
\* lane in last_lane.
C18_FirstTick ==
    (Decided /\ entry_last_lane = NoLane) =>
        /\ new_action = LANE_FOLLOW
        /\ new_target_lane = current_lane_arg
        /\ ~lane_change_mode
        /\ last_lane = current_lane_arg

C18_Witness ==
    /\ outcome = "returned" /\ entry_last_lane = NoLane /\ autopilot_step = 1
    /\ current_lane_arg = CENTER /\ last_lane = CENTER
    /\ lane_change = LANE_CHANGE_LEFT /\ enable_left_change
    /\ last_action = LANE_CHANGE_LEFT /\ last_target_lane = LEFT
    /\ new_action = LANE_FOLLOW /\ new_target_lane = CENTER

\* the lights of the latest call that pass every filter of the scan
Passing ==
    LET max_distance == _base_tlight_threshold + vehicle_speed
    IN {i \in 1..Len(lights_list) :
          /\ lights_list[i].dist <= max_distance
          /\ lights_list[i].road
          /\ lights_list[i].dot >= 0
          /\ lights_list[i].state = Red
          /\ lights_list[i].angle \in 0..90}

\* the latest call scanned the lights: checking was on, and no light was
\* cached or the cached one was no longer Red
Scanned ==
    /\ Decided /\ ~_ignore_traffic_lights
    /\ \/ entry_last_traffic_light = NoLight
       \/ lights_list[entry_last_traffic_light].state # Red

\* C19: a step that scans the lights caches the first light in list order
\* that is within the detection distance, on the road of the vehicle, not
\* facing against it, Red, and within distance and bearing [0, 90], and
\* raises the light hazard; when no light passes all of these it raises no
\* hazard and the cache is empty.
C19_FullLightScan ==
    Scanned =>
        IF Passing = {}
        THEN ~affected_by_tlight /\ _last_traffic_light = NoLight
        ELSE /\ affected_by_tlight
             /\ _last_traffic_light \in Passing
             /\ \A i \in Passing : _last_traffic_light <= i

C19_Witness ==
    /\ Scanned /\ outcome = "returned"
    /\ entry_last_traffic_light = 1 /\ lights_list[1] = NearGreen
    /\ lights_list[2] = EdgeRed
    /\ affected_by_tlight /\ _last_traffic_light = 2

\* the changes whose gap tests hold, among those the current lane allows
Qualifying ==
    (IF /\ current_lane_arg \in {CENTER, RIGHT}
        /\ distance_to_left_front > distance_to_center_front + 5
        /\ distance_to_left_rear > 1
     THEN {LANE_CHANGE_LEFT} ELSE {})
    \cup
    (IF /\ current_lane_arg \in {CENTER, LEFT}
        /\ distance_to_right_front > distance_to_center_front + 5
        /\ distance_to_right_rear > 1
     THEN {LANE_CHANGE_RIGHT} ELSE {})

C20_Post ==
    (Decided /\ ~random_lane_change) =>
        IF Qualifying = {} THEN lane_change = LANE_FOLLOW ELSE lane_change \in Qualifying

\* C20: under the gap policy the candidate of a step is a change only
\* toward a side whose front distance exceeds the centre front distance by
\* more than 5 and whose rear distance exceeds 1, to either side from CENTER,
\* only to the right from LEFT and only to the left from RIGHT; it is one of
\* the sides that qualify, and LANE_FOLLOW when none does.
C20_GapPolicyCandidate == [][IsStep => C20_Post']_vars

C20_Witness ==
    /\ Decided /\ ~random_lane_change /\ current_lane_arg = CENTER
    /\ Qualifying = Changes /\ lane_change = LANE_CHANGE_RIGHT
    /\ new_action = LANE_CHANGE_RIGHT /\ outcome = "returned"

\* C21, as stated: after a set_info call with _ignore_change_gap false,
\* enable_left_change is true iff left_wps is not empty and
\* enable_right_change is true iff right_wps is not empty; with
\* _ignore_change_gap true, each side is enabled unless its buffer is empty.
C21_Original ==
    [][SetInfo =>
        IF _ignore_change_gap
        THEN /\ enable_left_change' <=> left_wps' # 0
             /\ enable_right_change' <=> right_wps' # 0
        ELSE /\ enable_left_change' <=> left_wps' # 0
             /\ enable_right_change' <=> right_wps' # 0]_vars

\* C21, amended: after a set_info call with _ignore_change_gap false,
\* enable_left_change is true iff left_wps is not empty and
\* enable_right_change is true iff right_wps is not empty; with
\* _ignore_change_gap true, a side whose buffer is not empty is enabled, and
\* a side whose buffer is empty keeps its flag.
C21_EnablementFlags ==
    [][SetInfo =>
        IF _ignore_change_gap
        THEN /\ left_wps' # 0 => enable_left_change'
             /\ right_wps' # 0 => enable_right_change'
             /\ left_wps' = 0 => enable_left_change' = enable_left_change
             /\ right_wps' = 0 => enable_right_change' = enable_right_change
        ELSE /\ enable_left_change' <=> left_wps' # 0
             /\ enable_right_change' <=> right_wps' # 0]_vars

C21_Witness ==
    /\ _ignore_change_gap
    /\ left_wps # 0 /\ enable_left_change
    /\ right_wps = 0 /\ enable_right_change

\* C22: when every step is called with the action and the target lane the
\* previous step returned, after each returning step lane_change_mode is
\* true iff the returned action is LANE_CHANGE_LEFT or LANE_CHANGE_RIGHT, and
\* a step that continues a change on the same lane returns exactly the
\* last_action and last_target_lane it was called with.
C22_ModeMatchesAction ==
    outcome = "returned" =>
        /\ lane_change_mode <=> new_action \in Changes
        /\ Continued =>
            /\ new_action = last_action
            /\ new_target_lane = last_target_lane

C22_Witness ==
    /\ Continued /\ outcome = "returned" /\ autopilot_step = 3
    /\ lane_change_mode /\ last_lane = CENTER
    /\ last_action = LANE_CHANGE_RIGHT /\ last_target_lane = RIGHT
    /\ new_action = LANE_CHANGE_RIGHT /\ new_target_lane = RIGHT
    /\ lane_change = LANE_FOLLOW

\* the lane_change_mode the decision of the step being taken leaves
DecidedMode ==
    IF Truthy(last_lane) /\ current_lane_arg' = last_lane
    THEN lane_change_mode \/ Gate(lane_change') # LANE_FOLLOW
    ELSE FALSE

\* the light the hazard evaluation of the step being taken leaves cached
\* while _ignore_traffic_lights is false
EvaluatedLight ==
    IF _last_traffic_light # NoLight /\ lights_list'[_last_traffic_light].state = Red
    THEN _last_traffic_light
    ELSE FullScan

\* C23: a step that fails with IndexError in the tracker has incremented
\* autopilot_step, has updated _last_traffic_light by its hazard evaluation,
\* has set last_lane to the lane of the call and lane_change_mode to the
\* value its decision gives, and hands the caller no control and no new
\* action or target lane.
C23_NoRollback ==
    [][(RunStepFailure /\ outcome' = "IndexError") =>
        /\ autopilot_step' = autopilot_step + 1
        /\ _last_traffic_light' = EvaluatedLight
        /\ last_lane' = current_lane_arg'
        /\ lane_change_mode' = DecidedMode
        /\ control' = NoControl
        /\ Results' = {}]_vars

C23_Witness ==
    /\ outcome = "IndexError" /\ autopilot_step = 2
    /\ entry_last_lane = CENTER /\ last_lane = CENTER
    /\ ~entry_lane_change_mode /\ lane_change_mode /\ new_action = LANE_CHANGE_LEFT
    /\ entry_last_traffic_light = 1 /\ _last_traffic_light = 2
    /\ control = NoControl

\* the step being taken ran the hazard evaluation
Evaluated == IsStep /\ outcome' # "TypeError"

\* C24: a step raises the light hazard only while _ignore_traffic_lights is
\* false and with a light cached at its end whose state in the lights of
\* that step is Red; a step taken while _ignore_traffic_lights is true
\* raises no light hazard and leaves _last_traffic_light as it was; and a
\* step taken while it is false that raises no light hazard leaves
\* _last_traffic_light empty.
C24_HazardHasRedLight ==
    [][Evaluated =>
        /\ affected_by_tlight' =>
            /\ ~_ignore_traffic_lights
            /\ _last_traffic_light' # NoLight
            /\ lights_list'[_last_traffic_light'].state = Red
        /\ _ignore_traffic_lights =>
            /\ ~affected_by_tlight'
            /\ _last_traffic_light' = _last_traffic_light
        /\ (~_ignore_traffic_lights /\ ~affected_by_tlight') =>
            _last_traffic_light' = NoLight]_vars

C24_Witness ==
    /\ Decided /\ _ignore_traffic_lights
    /\ entry_last_traffic_light = 2 /\ _last_traffic_light = 2
    /\ lights_list[1].state = Red /\ lights_list[2].state = Green
    /\ ~affected_by_tlight

====
